---- MODULE Spec2Model ----
(***************************************************************************)
(* sway-monitor-manager: the background daemon of sway_monitor_daemon.py.  *)
(* Two threads share one MonitorDaemon object: the main thread (run) and   *)
(* the pyudev MonitorObserver thread, which calls handle_udev_event for    *)
(* every udev event, one event at a time.                                  *)
(*                                                                         *)
(* Spec      run(): load_profiles, the startup reconciliation and the      *)
(*           reconciliations of handle_udev_event                          *)
(* MatchSpec find_best_config called on a loaded daemon                    *)
(* ApplySpec the command apply_monitor_config (and the front-end's         *)
(*           apply_config) builds for one output and one configuration     *)
(* SaveSpec  save_current_setup, with other processes reading the profile  *)
(*           files and the front-end (sway_monitor_manager.py) saving one  *)
(***************************************************************************)
EXTENDS Integers, Sequences, FiniteSets, TLC

\* ------------------------------------------------------------------ bounds
\* udev events the environment emits in one run
MaxEvents == 2
\* external-command faults (non-zero exit, malformed output) in one run
MaxFaults == 1
\* outputs connected when the current setup is saved
MaxOutputs == 2

\* --------------------------------------------------------------- constants
DEFAULT_PROFILE == "default"

Threads == {"main", "observer"}

Other(t) == IF t = "main" THEN "observer" ELSE "main"

\* ------------------------------------------------------- python primitives
\* dict.get(key, default)
Get(d, k, default) == IF k \in DOMAIN d THEN d[k] ELSE default

\* str.split(sep) on a string held as a sequence of characters
Split(s, sep) ==
  LET F[i \in 0..Len(s)] ==
        IF i = 0 THEN << <<>> >>
        ELSE IF s[i] = sep THEN Append(F[i-1], <<>>)
        ELSE [F[i-1] EXCEPT ![Len(F[i-1])] = Append(@, s[i])]
  IN F[Len(s)]

\* bool(config) of "if config:" -- an empty dict is falsy
Truthy(config) == DOMAIN config # {}

\* a number as json.loads gives it, with at most one decimal: a float or an
\* int of value tenths / 10
PyFloat(tenths) == [type |-> "float", tenths |-> tenths]
PyInt(n) == [type |-> "int", tenths |-> 10 * n]

Digit(d) == <<"0", "1", "2", "3", "4", "5", "6", "7", "8", "9">>[d + 1]

\* the decimal digits of a natural number, as characters
RECURSIVE FormatNat(_)
FormatNat(n) ==
  IF n < 10 THEN <<Digit(n)>> ELSE Append(FormatNat(n \div 10), Digit(n % 10))

\* f"{n}" / str(n) of an int
FormatInt(n) == IF n < 0 THEN <<"-">> \o FormatNat(0 - n) ELSE FormatNat(n)

\* str(x) / repr(x) of a number: an int has no point, a float always has one
Str(x) ==
  IF x.type = "int" THEN FormatInt(x.tenths \div 10)
  ELSE FormatInt(x.tenths \div 10) \o <<".", Digit(x.tenths % 10)>>

DigitValue(c) == CHOOSE d \in 0..9 : Digit(d) = c

\* int() of a string of decimal digits
RECURSIVE ParseNat(_)
ParseNat(s) ==
  IF s = << >> THEN 0
  ELSE 10 * ParseNat(SubSeq(s, 1, Len(s) - 1)) + DigitValue(s[Len(s)])

ParseInt(s) ==
  IF s # << >> /\ s[1] = "-" THEN 0 - ParseNat(Tail(s)) ELSE ParseNat(s)

\* all orderings of a finite set, as sequences without repetition
Orderings(S) ==
  {s \in [1..Cardinality(S) -> S] : \A i, j \in 1..Cardinality(S) : i # j => s[i] # s[j]}

\* ------------------------------------------------------ outputs (hardware)
\* entries of `swaymsg -t get_outputs`: name, model, serial
mDell == [name |-> "DP-1", model |-> "DELL", serial |-> "ABC123"]
mLG == [name |-> "HDMI-1", model |-> "LG", serial |-> "XYZ"]
mLGonDP == [name |-> "DP-1", model |-> "LG", serial |-> "XYZ"]

Monitors == {mDell, mLG, mLGonDP}

Names(ms) == {m.name : m \in ms}

Range(s) == {s[i] : i \in 1..Len(s)}

\* a connector carries at most one monitor
Topologies == {ms \in SUBSET Monitors : Cardinality(Names(ms)) = Cardinality(ms)}

\* ------------------------------------------------- stored output configs
\* position "x,y" and resolution "WxH" are strings (character sequences);
\* scale is a number
cfgDell == [model |-> "DELL", position |-> <<"0", ",", "0">>,
            resolution |-> <<"1", "9", "2", "0", "x", "1", "0", "8", "0">>,
            scale |-> PyFloat(10), transform |-> "normal", enabled |-> TRUE]
cfgLG == [model |-> "LG", position |-> <<"1", "9", "2", "0", ",", "0">>,
          resolution |-> <<"2", "5", "6", "0", "x", "1", "4", "4", "0">>,
          scale |-> PyFloat(10), transform |-> "normal", enabled |-> TRUE]
cfgAlt == [model |-> "DELL", position |-> <<"0", ",", "1", "0", "8", "0">>,
           resolution |-> <<"1", "2", "8", "0", "x", "7", "2", "0">>,
           scale |-> PyInt(2), transform |-> "90", enabled |-> TRUE]
cfgOff == [model |-> "DELL", enabled |-> FALSE]
\* an entry without "resolution"
cfgNoRes == [model |-> "DELL", position |-> <<"0", ",", "0">>,
             scale |-> PyFloat(10), transform |-> "normal", enabled |-> TRUE]
\* an entry that is the empty object {}
cfgEmpty == << >>

\* ------------------------------------------------------------------- JSON
\* json.dump of one field of an entry: a number is written as its repr, a
\* bool as true/false, a str as a string
JsonValue(field, v) ==
  IF field = "scale" THEN [t |-> "number", text |-> Str(v)]
  ELSE IF field = "enabled" THEN [t |-> IF v THEN "true" ELSE "false"]
  ELSE [t |-> "string", s |-> v]

\* json.load of a number literal: a float when it has a point, else an int
ParseNumber(text) ==
  LET parts == Split(text, ".")
  IN IF Len(parts) = 1 THEN PyInt(ParseInt(text))
     ELSE PyFloat(10 * ParseInt(parts[1]) + ParseNat(parts[2]))

\* json.load of one value
PyValue(j) ==
  IF j.t = "number" THEN ParseNumber(j.text)
  ELSE IF j.t = "true" THEN TRUE
  ELSE IF j.t = "false" THEN FALSE
  ELSE j.s

\* json.dump(self.configs, f, indent=2): the text, member by member
JsonDump(configs) ==
  [k \in DOMAIN configs |->
     [f \in DOMAIN configs[k] |-> JsonValue(f, configs[k][f])]]

\* json.load(f): the dict of dicts the text stands for
JsonLoad(text) ==
  [k \in DOMAIN text |-> [f \in DOMAIN text[k] |-> PyValue(text[k][f])]]

\* ------------------------------------------------------ profile directory
\* a profile file holding the JSON text of configs
FileOk(configs) == [ok |-> TRUE, text |-> JsonDump(configs)]
\* a file whose content json.load rejects
FileCorrupt == [ok |-> FALSE]
\* a file just opened with mode 'w' (truncated), and one written in part
FileEmpty == [ok |-> FALSE, text |-> "empty"]
FilePartial == [ok |-> FALSE, text |-> "partial"]

\* the active_profile marker file: a profile name, with or without the newline
\* an editor or `echo` leaves after it
Marker(name, newline) ==
  [exists |-> TRUE, readable |-> TRUE, name |-> name, newline |-> newline]
NoMarker == [exists |-> FALSE]
\* a marker that exists and cannot be read as text (no read permission, a
\* directory, bytes that are not UTF-8): open() or read() raises
UnreadableMarker == [exists |-> TRUE, readable |-> FALSE]

\* str.strip() of the marker's text
Strip(text) == text.name

\* contents of ~/.config/sway-monitor-profiles: *.json files and the marker
\* well-formed profiles; no marker file
DiskGood ==
  [files |-> ("default" :> FileOk(("DELL_ABC123" :> cfgDell)))
             @@ ("office" :> FileOk(("DELL" :> cfgAlt) @@ ("DP-1" :> cfgOff))),
   marker |-> NoMarker]
\* a hand-edited profile: an entry without resolution, an empty entry
DiskEdited ==
  [files |-> ("home" :> FileOk(("DELL" :> cfgNoRes) @@ ("DP-1" :> cfgEmpty)
                               @@ ("HDMI-1" :> cfgLG))),
   marker |-> Marker("home", TRUE)]
\* a profile file that is not JSON
DiskCorrupt ==
  [files |-> ("default" :> FileOk(("DELL" :> cfgDell))) @@ ("office" :> FileCorrupt),
   marker |-> NoMarker]
\* the marker names a profile whose file is gone
DiskStaleMarker ==
  [files |-> ("default" :> FileOk(("DELL" :> cfgDell))),
   marker |-> Marker("gone", FALSE)]
\* the marker cannot be read
DiskUnreadableMarker ==
  [files |-> ("default" :> FileOk(("DELL" :> cfgDell))),
   marker |-> UnreadableMarker]

Disks == {DiskGood, DiskEdited, DiskCorrupt, DiskStaleMarker, DiskUnreadableMarker}

VARIABLES
  disk,                 \* profile directory: files and marker
  connected,            \* monitors physically connected (what sway reports)
  udevQueue,            \* udev events delivered to the observer, not yet handled
  profiles,             \* self.profiles: name -> config mapping
  profileOrder,         \* insertion order of self.profiles (dict order)
  active_profile_name,  \* self.active_profile_name
  current_monitors,     \* self.current_monitors (LiveOutputSet)
  pc,                   \* position of each thread
  monitors,             \* update_monitor_configs local: list returned by the query
  new_monitor_set,      \* update_monitor_configs local
  idx,                  \* update_monitor_configs local: position of the for loop
  inflight,             \* swaymsg output command each thread is waiting for
  log,                  \* history: steps of each thread's current/last reconciliation
  cycleInfo,            \* history: what preceded each thread's reconciliation
  lastDone,             \* history: the reconciliation that ended most recently
  nEvents,              \* history: udev events emitted so far
  faults,               \* history: external-command faults so far
  udevAction,           \* handle_udev_event argument: action of the event in hand
  matchArg,             \* find_best_config call: argument
  matchRes,             \* find_best_config call: result
  backlog,              \* history: add/remove events still queued when the handler last took one
  applyArg,             \* apply_monitor_config / apply_config call: output and config
  applyRes,             \* apply_monitor_config / apply_config call: command built
  savePc,               \* position inside save_current_setup
  saveArg,              \* save_current_setup argument profile_name ("" for None)
  saveMonitors,         \* save_current_setup local: list returned by the query
  readerSaw,            \* what the last reader of a profile file got from it
  manager_save          \* front-end save_profile call in progress

vars == <<disk, connected, udevQueue, profiles, profileOrder, active_profile_name,
          current_monitors, pc, monitors, new_monitor_set, idx, inflight, log,
          cycleInfo, lastDone, nEvents, faults, udevAction, matchArg, matchRes,
          backlog, applyArg, applyRes, savePc, saveArg, saveMonitors, readerSaw,
          manager_save>>

\* the variables of one apply call, and of the save path and the front-end
applyVars == <<applyArg, applyRes>>
saveVars == <<savePc, saveArg, saveMonitors, readerSaw, manager_save>>

NoCmd == [verb |-> "none"]
NoCycle == [done |-> FALSE, names |-> {}, failed |-> FALSE, seen |-> {},
            was |-> {}]
NoMonitor == [name |-> "", model |-> "", serial |-> ""]
NoResult == [kind |-> "unset"]
NoCall == [kind |-> "unset"]
NoRead == [kind |-> "none"]

\* no apply call has been made on its own
ApplyIdle ==
  /\ applyArg = NoCall
  /\ applyRes = NoResult

\* save_current_setup is not running, nobody has read or is writing a file
SaveIdle ==
  /\ savePc = "idle"
  /\ saveArg = ""
  /\ saveMonitors = << >>
  /\ readerSaw = NoRead
  /\ manager_save = [pc |-> "idle"]

\* MonitorDaemon.__init__
DaemonInit ==
  /\ profiles = << >>
  /\ profileOrder = << >>
  /\ active_profile_name = DEFAULT_PROFILE
  /\ current_monitors = {}
  /\ pc = [t \in Threads |-> IF t = "main" THEN "load_profiles" ELSE "unstarted"]
  /\ monitors = [t \in Threads |-> << >>]
  /\ new_monitor_set = [t \in Threads |-> {}]
  /\ idx = [t \in Threads |-> 0]
  /\ inflight = [t \in Threads |-> NoCmd]
  /\ log = [t \in Threads |-> << >>]
  /\ cycleInfo = [t \in Threads |-> [prev |-> NoCycle, solo |-> FALSE]]
  /\ lastDone = NoCycle
  /\ udevQueue = << >>
  /\ nEvents = 0
  /\ faults = << >>
  /\ udevAction = ""
  /\ backlog = 0

Init ==
  /\ DaemonInit
  /\ disk \in Disks
  /\ connected \in Topologies
  /\ matchArg = NoMonitor
  /\ matchRes = NoResult
  /\ ApplyIdle
  /\ SaveIdle

\* ---------------------------------------------------------------- matcher
\* mutant: identifiers built from an empty model or serial are not tried
IdentifiersNonEmpty(monitor) ==
  SelectSeq(<< monitor.model \o "_" \o monitor.serial, monitor.model,
               monitor.name >>,
            LAMBDA k : /\ k # ""
                       /\ (monitor.model = "" \/ monitor.serial = "") =>
                            k # monitor.model \o "_" \o monitor.serial)

\* mutant: the connector name is tried first
IdentifiersNameFirst(monitor) ==
  << monitor.name, monitor.model \o "_" \o monitor.serial, monitor.model >>

\* [f"{model}_{serial}", model, name]
Identifiers(monitor) ==
  << monitor.model \o "_" \o monitor.serial, monitor.model, monitor.name >>

\* index of the first identifier that is a key of configs, 0 when none is
FirstHit(configs, ids) ==
  IF \E i \in 1..Len(ids) : ids[i] \in DOMAIN configs
  THEN CHOOSE i \in 1..Len(ids) :
         /\ ids[i] \in DOMAIN configs
         /\ \A j \in 1..(i - 1) : ids[j] \notin DOMAIN configs
  ELSE 0

\* mutant: the loop does not stop at its first hit, the last one wins
OtherProfilesLastHit(ids) ==
  LET P == {i \in 1..Len(profileOrder) : FirstHit(profiles[profileOrder[i]], ids) # 0}
  IN IF P = {} THEN [kind |-> "None"]
     ELSE LET i == CHOOSE i \in P : \A j \in P : i >= j
              c == profiles[profileOrder[i]]
          IN [kind |-> "config", config |-> c[ids[FirstHit(c, ids)]]]

\* the loop over self.profiles.values(), in dict order
OtherProfilesHit(ids) ==
  LET P == {i \in 1..Len(profileOrder) : FirstHit(profiles[profileOrder[i]], ids) # 0}
  IN IF P = {} THEN [kind |-> "None"]
     ELSE LET i == CHOOSE i \in P : \A j \in P : i <= j
              c == profiles[profileOrder[i]]
          IN [kind |-> "config", config |-> c[ids[FirstHit(c, ids)]]]

find_best_config(monitor) ==
  LET ids == Identifiers(monitor) IN
  IF active_profile_name \notin DOMAIN profiles
  THEN [kind |-> "KeyError"]
  ELSE LET a == profiles[active_profile_name]
           h == FirstHit(a, ids)
       IN IF h # 0 THEN [kind |-> "config", config |-> a[ids[h]]]
          ELSE OtherProfilesHit(ids)

\* ------------------------------------------------------------- apply (cmd)
Raise(exc) == [verb |-> "raise", exc |-> exc]

\* the arguments of an enabled output: pos, res, scale, transform, or the
\* exception reading them raises
SetCommand(name, config) ==
  IF "resolution" \notin DOMAIN config THEN Raise("KeyError")
  ELSE IF Len(Split(config.resolution, "x")) # 2 THEN Raise("ValueError")
  ELSE IF "position" \notin DOMAIN config THEN Raise("KeyError")
  ELSE IF Len(Split(config.position, ",")) # 2 THEN Raise("ValueError")
  ELSE IF "scale" \notin DOMAIN config THEN Raise("KeyError")
  ELSE IF "transform" \notin DOMAIN config THEN Raise("KeyError")
  ELSE [verb |-> "set", output |-> name,
        pos |-> Split(config.position, ","),
        res |-> Split(config.resolution, "x"),
        scale |-> Str(config.scale),
        transform |-> config.transform]

\* mutant: the enabled flag is not looked at
BuildCommandAlwaysSet(monitor, config) == SetCommand(monitor.name, config)

\* the swaymsg command apply_monitor_config builds, or the exception it raises
BuildCommand(monitor, config) ==
  IF Get(config, "enabled", TRUE)
  THEN SetCommand(monitor.name, config)
  ELSE [verb |-> "disable", output |-> monitor.name]

\* the command the front-end's MonitorConfigRow.apply_config builds from the
\* dict of get_config (every field present, enabled read without a default)
ManagerBuildCommand(name, config) ==
  IF config.enabled
  THEN SetCommand(name, config)
  ELSE [verb |-> "disable", output |-> name]

\* ------------------------------------------------------------ thread state
InCycle(t) == pc[t] \in {"query", "compare", "loop", "applying", "update"}

Alive == pc["main"] # "crashed"

\* where update_monitor_configs returns to
Idle(t) == IF t = "main" THEN "sleep" ELSE "wait"

\* an uncaught exception in thread t: in the main thread it leaves run() and
\* the process exits, taking the daemonic observer thread with it; in the
\* observer thread it ends that thread only
Die(t) ==
  IF t = "main"
  THEN [u \in Threads |->
          IF u = "main" THEN "crashed"
          ELSE IF pc[u] = "unstarted" THEN "unstarted" ELSE "killed"]
  ELSE [pc EXCEPT ![t] = "dead"]

\* history kept when thread t enters update_monitor_configs
BeginCycle(t) ==
  /\ log' = [log EXCEPT ![t] = << >>]
  /\ cycleInfo' = [u \in Threads |->
                     IF u = t THEN [prev |-> lastDone, solo |-> ~InCycle(Other(t))]
                     ELSE [cycleInfo[u] EXCEPT !.solo = FALSE]]

Logged(t, entry) == log' = [log EXCEPT ![t] = Append(@, entry)]

\* the locals of update_monitor_configs go away when it returns or raises
DropLocals(t) ==
  /\ monitors' = [monitors EXCEPT ![t] = << >>]
  /\ new_monitor_set' = [new_monitor_set EXCEPT ![t] = {}]
  /\ idx' = [idx EXCEPT ![t] = 0]

\* mutant: the loop is left after its first pass
LoopPcFirstOnly(t, i) == "update"

\* the for loop: next monitor, or the statement after the loop
LoopPc(t, i) == IF i > Len(monitors[t]) THEN "update" ELSE "loop"

\* mutant: an empty query result is not taken for a change
ChangedUnlessEmpty(new, cur) == new # cur /\ new # {}

\* mutant: no reconciliation is taken for a change
ChangedNever(new, cur) == FALSE

\* mutant: every reconciliation is taken for a change
ChangedAlways(new, cur) == TRUE

\* new_monitor_set != self.current_monitors
Changed(new, cur) == new # cur

\* ------------------------------------------------------------------ run()
\* MonitorProfile.load: json.load of the file, `configs or {}`
LoadedConfigs(file) ==
  LET configs == JsonLoad(file.text)
  IN IF Truthy(configs) THEN configs ELSE << >>

\* the files of the glob, in its order, that are loaded before the loop ends
\* or json.load raises
LoadedPrefix(order) ==
  LET bad == {i \in 1..Len(order) : ~disk.files[order[i]].ok}
  IN IF bad = {} THEN order
     ELSE SubSeq(order, 1, (CHOOSE i \in bad : \A j \in bad : i <= j) - 1)

\* mutant: no default profile is synthesized
EnsureDefaultNever(loaded, order) == [profiles |-> loaded, order |-> order]

\* if DEFAULT_PROFILE not in self.profiles: an empty one is added (last in
\* dict order)
EnsureDefault(loaded, order) ==
  IF DEFAULT_PROFILE \in DOMAIN loaded
  THEN [profiles |-> loaded, order |-> order]
  ELSE [profiles |-> [n \in DOMAIN loaded \cup {DEFAULT_PROFILE} |->
                        IF n \in DOMAIN loaded THEN loaded[n] ELSE << >>],
        order |-> Append(order, DEFAULT_PROFILE)]

load_profiles ==
  /\ pc["main"] = "load_profiles"
  /\ \E order \in Orderings(DOMAIN disk.files) :
       LET done == LoadedPrefix(order)
           loaded == [n \in Range(done) |-> LoadedConfigs(disk.files[n])]
           all == EnsureDefault(loaded, done)
       IN IF Len(done) < Len(order)
          THEN \* json.load raises; nothing in run() catches it
               /\ profiles' = loaded
               /\ profileOrder' = done
               /\ pc' = Die("main")
               /\ UNCHANGED active_profile_name
          ELSE /\ profiles' = all.profiles
               /\ profileOrder' = all.order
               /\ IF ~disk.marker.exists
                  THEN /\ pc' = [pc EXCEPT !["main"] = "start_observer"]
                       /\ UNCHANGED active_profile_name
                  ELSE IF ~disk.marker.readable
                  THEN \* open() or f.read() raises
                       /\ pc' = Die("main")
                       /\ UNCHANGED active_profile_name
                  ELSE /\ active_profile_name' = Strip(disk.marker)
                       /\ pc' = [pc EXCEPT !["main"] = "start_observer"]
  /\ UNCHANGED <<disk, connected, udevQueue, current_monitors, monitors,
                 new_monitor_set, idx, inflight, log, cycleInfo, lastDone,
                 nEvents, faults, udevAction, matchArg, matchRes,
                 backlog, applyVars, saveVars>>

\* observer.start(), then the call of update_monitor_configs
start_observer ==
  /\ pc["main"] = "start_observer"
  /\ pc' = [pc EXCEPT !["main"] = "query", !["observer"] = "wait"]
  /\ BeginCycle("main")
  /\ UNCHANGED <<disk, connected, udevQueue, profiles, profileOrder,
                 active_profile_name, current_monitors, monitors, new_monitor_set,
                 idx, inflight, lastDone, nEvents, faults, udevAction,
                 matchArg, matchRes, backlog, applyVars, saveVars>>

\* -------------------------------------------------- handle_udev_event
\* the events of queue q that make the handler reconcile
Pending(q) == {i \in 1..Len(q) : q[i] \in {"add", "remove"}}

\* the observer thread takes the next event and calls the handler
handle_udev_event ==
  /\ pc["observer"] = "wait"
  /\ udevQueue # << >>
  /\ udevQueue' = Tail(udevQueue)
  /\ IF Head(udevQueue) \in {"add", "remove"}
     THEN /\ pc' = [pc EXCEPT !["observer"] = "settle"]
          /\ udevAction' = Head(udevQueue)
          /\ backlog' = Cardinality(Pending(Tail(udevQueue)))
     ELSE UNCHANGED <<pc, udevAction, backlog>>
  /\ UNCHANGED <<disk, connected, profiles, profileOrder, active_profile_name,
                 current_monitors, monitors, new_monitor_set, idx, inflight, log,
                 cycleInfo, lastDone, nEvents, faults, matchArg, matchRes,
                 applyVars, saveVars>>

\* time.sleep(2) returns and update_monitor_configs is called
settle_delay ==
  /\ pc["observer"] = "settle"
  /\ pc' = [pc EXCEPT !["observer"] = "query"]
  /\ BeginCycle("observer")
  /\ UNCHANGED <<disk, connected, udevQueue, profiles, profileOrder,
                 active_profile_name, current_monitors, monitors, new_monitor_set,
                 idx, inflight, lastDone, nEvents, faults, udevAction,
                 matchArg, matchRes, backlog, applyVars, saveVars>>

\* ------------------------------------------- update_monitor_configs
\* history: the name-set of the reconciliation that returns, whether its query
\* had failed, the outputs the query reported, and LiveOutputSet as the
\* reconciliation found it
EndCycle(t) ==
  lastDone' = [done |-> TRUE, names |-> new_monitor_set[t],
               failed |-> ~log[t][1].ok, seen |-> Range(monitors[t]),
               was |-> current_monitors]

\* get_current_monitors and the name-set comprehension after it
get_current_monitors(t) ==
  /\ InCycle(t) /\ pc[t] = "query"
  /\ \/ \* swaymsg prints the outputs (in the compositor's order)
        \E ms \in Orderings(connected) :
          /\ monitors' = [monitors EXCEPT ![t] = ms]
          /\ new_monitor_set' = [new_monitor_set EXCEPT ![t] = Names(Range(ms))]
          /\ pc' = [pc EXCEPT ![t] = "compare"]
          /\ Logged(t, [op |-> "query", ok |-> TRUE, monitors |-> ms])
          /\ UNCHANGED <<faults, lastDone, idx>>
     \/ \* swaymsg exits non-zero: CalledProcessError is caught, [] is returned
        /\ Len(faults) < MaxFaults
        /\ faults' = Append(faults, "query_exit")
        /\ monitors' = [monitors EXCEPT ![t] = << >>]
        /\ new_monitor_set' = [new_monitor_set EXCEPT ![t] = {}]
        /\ pc' = [pc EXCEPT ![t] = "compare"]
        /\ Logged(t, [op |-> "query", ok |-> FALSE, monitors |-> << >>])
        /\ UNCHANGED <<lastDone, idx>>
     \/ \* swaymsg prints something json.loads rejects: JSONDecodeError is raised
        /\ Len(faults) < MaxFaults
        /\ faults' = Append(faults, "query_malformed")
        /\ pc' = Die(t)
        /\ Logged(t, [op |-> "raise", exc |-> "JSONDecodeError"])
        /\ lastDone' = NoCycle
        /\ DropLocals(t)
  /\ UNCHANGED <<disk, connected, udevQueue, profiles, profileOrder,
                 active_profile_name, current_monitors, inflight, cycleInfo,
                 nEvents, udevAction, matchArg, matchRes,
                 backlog, applyVars, saveVars>>

\* if new_monitor_set != self.current_monitors
detect_change(t) ==
  /\ pc[t] = "compare"
  /\ IF Changed(new_monitor_set[t], current_monitors)
     THEN /\ idx' = [idx EXCEPT ![t] = 1]
          /\ pc' = [pc EXCEPT ![t] = LoopPc(t, 1)]
          /\ UNCHANGED <<log, lastDone, monitors, new_monitor_set, udevAction>>
     ELSE /\ pc' = [pc EXCEPT ![t] = Idle(t)]
          /\ Logged(t, [op |-> "unchanged"])
          /\ EndCycle(t)
          /\ DropLocals(t)
          /\ udevAction' = IF t = "observer" THEN "" ELSE udevAction
  /\ UNCHANGED <<disk, connected, udevQueue, profiles, profileOrder,
                 active_profile_name, current_monitors, inflight, cycleInfo,
                 nEvents, faults, matchArg, matchRes,
                 backlog, applyVars, saveVars>>

\* one pass of the for loop up to the start of the swaymsg output command
apply_monitor_config(t) ==
  /\ pc[t] = "loop"
  /\ LET monitor == monitors[t][idx[t]]
         found == find_best_config(monitor)
     IN IF found.kind = "KeyError"
        THEN \* self.profiles[self.active_profile_name] raises
             /\ pc' = Die(t)
             /\ Logged(t, [op |-> "raise", exc |-> "KeyError"])
             /\ lastDone' = NoCycle
             /\ DropLocals(t)
             /\ UNCHANGED inflight
        ELSE IF found.kind = "config" /\ Truthy(found.config)
        THEN LET cmd == BuildCommand(monitor, found.config) IN
             IF cmd.verb = "raise"
             THEN /\ pc' = Die(t)
                  /\ Logged(t, [op |-> "apply", name |-> monitor.name,
                                config |-> found.config, result |-> "raise"])
                  /\ lastDone' = NoCycle
                  /\ DropLocals(t)
                  /\ UNCHANGED inflight
             ELSE /\ pc' = [pc EXCEPT ![t] = "applying"]
                  /\ inflight' = [inflight EXCEPT ![t] = cmd]
                  /\ Logged(t, [op |-> "apply", name |-> monitor.name,
                                config |-> found.config, result |-> "pending"])
                  /\ UNCHANGED <<lastDone, monitors, new_monitor_set, idx>>
        ELSE \* logging.warning: no configuration found
             /\ idx' = [idx EXCEPT ![t] = @ + 1]
             /\ pc' = [pc EXCEPT ![t] = LoopPc(t, idx[t] + 1)]
             /\ Logged(t, [op |-> "nomatch", name |-> monitor.name])
             /\ UNCHANGED <<lastDone, monitors, new_monitor_set, inflight>>
  /\ UNCHANGED <<disk, connected, udevQueue, profiles, profileOrder,
                 active_profile_name, current_monitors, cycleInfo, nEvents,
                 faults, udevAction, matchArg, matchRes,
                 backlog, applyVars, saveVars>>

\* where the loop goes when subprocess.run ended with the given result
\* ("ok": exit 0, return True; "fail": CalledProcessError caught, return False)
AfterApply(t, result) == [pc EXCEPT ![t] = LoopPc(t, idx[t] + 1)]

\* subprocess.run(cmd, check=True) returns or raises CalledProcessError
apply_monitor_config_done(t) ==
  /\ pc[t] = "applying"
  /\ \E result \in {"ok", "fail"} :
       /\ IF result = "fail"
          THEN /\ Len(faults) < MaxFaults
               /\ faults' = Append(faults, "apply_exit")
          ELSE UNCHANGED faults
       /\ log' = [log EXCEPT ![t][Len(log[t])].result = result]
       /\ pc' = AfterApply(t, result)
  /\ inflight' = [inflight EXCEPT ![t] = NoCmd]
  /\ idx' = [idx EXCEPT ![t] = @ + 1]
  /\ UNCHANGED <<disk, connected, udevQueue, profiles, profileOrder,
                 active_profile_name, current_monitors, monitors, new_monitor_set,
                 cycleInfo, lastDone, nEvents, udevAction, matchArg, matchRes,
                 backlog, applyVars, saveVars>>

\* mutant: the reconciliation also rewrites the marker file on its way out
store_current_monitors_and_marker(t) ==
  /\ pc[t] = "update"
  /\ current_monitors' = new_monitor_set[t]
  /\ disk' = [disk EXCEPT !.marker = Marker(active_profile_name, FALSE)]
  /\ pc' = [pc EXCEPT ![t] = Idle(t)]
  /\ Logged(t, [op |-> "update"])
  /\ EndCycle(t)
  /\ DropLocals(t)
  /\ udevAction' = IF t = "observer" THEN "" ELSE udevAction
  /\ UNCHANGED <<connected, udevQueue, profiles, profileOrder,
                 active_profile_name, inflight, cycleInfo, nEvents, faults,
                 matchArg, matchRes, backlog, applyVars, saveVars>>

\* self.current_monitors = new_monitor_set, and the return
store_current_monitors(t) ==
  /\ pc[t] = "update"
  /\ current_monitors' = new_monitor_set[t]
  /\ pc' = [pc EXCEPT ![t] = Idle(t)]
  /\ Logged(t, [op |-> "update"])
  /\ EndCycle(t)
  /\ DropLocals(t)
  /\ udevAction' = IF t = "observer" THEN "" ELSE udevAction
  /\ UNCHANGED <<disk, connected, udevQueue, profiles, profileOrder,
                 active_profile_name, inflight, cycleInfo, nEvents, faults,
                 matchArg, matchRes, backlog, applyVars, saveVars>>

\* ------------------------------------------------------------ environment
\* the kernel announces the event; it reaches the observer once it listens
Emit(action) ==
  /\ nEvents < MaxEvents
  /\ Alive
  /\ nEvents' = nEvents + 1
  /\ udevQueue' = IF pc["observer"] = "unstarted" THEN udevQueue
                  ELSE Append(udevQueue, action)

Plug(m) ==
  /\ m \notin connected
  /\ m.name \notin Names(connected)
  /\ connected' = connected \cup {m}
  /\ Emit("add")
  /\ UNCHANGED <<disk, profiles, profileOrder, active_profile_name,
                 current_monitors, pc, monitors, new_monitor_set, idx, inflight,
                 log, cycleInfo, lastDone, faults, udevAction, matchArg, matchRes,
                 backlog, applyVars, saveVars>>

Unplug(m) ==
  /\ m \in connected
  /\ connected' = connected \ {m}
  /\ Emit("remove")
  /\ UNCHANGED <<disk, profiles, profileOrder, active_profile_name,
                 current_monitors, pc, monitors, new_monitor_set, idx, inflight,
                 log, cycleInfo, lastDone, faults, udevAction, matchArg, matchRes,
                 backlog, applyVars, saveVars>>

\* a drm event with another action (a property change): no topology change
UdevChange ==
  /\ Emit("change")
  /\ UNCHANGED <<disk, connected, profiles, profileOrder, active_profile_name,
                 current_monitors, pc, monitors, new_monitor_set, idx, inflight,
                 log, cycleInfo, lastDone, faults, udevAction, matchArg, matchRes,
                 backlog, applyVars, saveVars>>

Next ==
  \/ load_profiles
  \/ start_observer
  \/ handle_udev_event
  \/ settle_delay
  \/ \E t \in Threads : get_current_monitors(t)
  \/ \E t \in Threads : detect_change(t)
  \/ \E t \in Threads : apply_monitor_config(t)
  \/ \E t \in Threads : apply_monitor_config_done(t)
  \/ \E t \in Threads : store_current_monitors(t)
  \/ \E m \in Monitors : Plug(m)
  \/ \E m \in Monitors : Unplug(m)
  \/ UdevChange

Spec == Init /\ [][Next]_vars

\* ------------------------------------------------ the matcher on its own
\* A daemon that has loaded three profiles and is idle; find_best_config is
\* called for one output at a time.
MatchProfileNames == {"default", "office", "home"}

MatchKeys == {"DELL_ABC123", "DELL", "DP-1"}

\* outputs that report an empty serial, an empty model, or both
mNoSerial == [name |-> "HDMI-2", model |-> "DELL", serial |-> ""]

mNoModel == [name |-> "DP-2", model |-> "", serial |-> "XYZ"]

mBlank == [name |-> "eDP-1", model |-> "", serial |-> ""]

MatchMonitors == Monitors \cup {mNoSerial, mNoModel, mBlank}

\* keys a profile file may hold for such outputs
BlankKeys == {"_", "", "eDP-1"}

NoSerialKeys == {"DELL_", "DELL", "HDMI-2"}

MatchKeySets == {MatchKeys, BlankKeys, NoSerialKeys}

PositionOf(p) ==
  IF p = "default" THEN <<"0", ",", "0">>
  ELSE IF p = "office" THEN <<"1", "9", "2", "0", ",", "0">>
  ELSE <<"0", ",", "1", "0", "8", "0">>

\* the entry profile p stores under key k; no two of them are equal
EntryOf(p, k) ==
  [model |-> k, position |-> PositionOf(p),
   resolution |-> <<"1", "9", "2", "0", "x", "1", "0", "8", "0">>,
   scale |-> PyFloat(10), transform |-> "normal", enabled |-> TRUE]

MatchInit ==
  /\ \E K \in MatchKeySets : \E keys \in [MatchProfileNames -> SUBSET K] :
       profiles = [p \in MatchProfileNames |-> [k \in keys[p] |-> EntryOf(p, k)]]
  /\ profileOrder \in Orderings(MatchProfileNames)
  /\ active_profile_name \in MatchProfileNames
  /\ disk = [files |-> [p \in MatchProfileNames |-> FileOk(profiles[p])],
             marker |-> Marker(active_profile_name, FALSE)]
  /\ connected = {}
  /\ current_monitors = {}
  /\ pc = [t \in Threads |-> Idle(t)]
  /\ monitors = [t \in Threads |-> << >>]
  /\ new_monitor_set = [t \in Threads |-> {}]
  /\ idx = [t \in Threads |-> 0]
  /\ inflight = [t \in Threads |-> NoCmd]
  /\ log = [t \in Threads |-> << >>]
  /\ cycleInfo = [t \in Threads |-> [prev |-> NoCycle, solo |-> FALSE]]
  /\ lastDone = NoCycle
  /\ udevQueue = << >>
  /\ nEvents = 0
  /\ faults = << >>
  /\ udevAction = ""
  /\ backlog = 0
  /\ matchArg = NoMonitor
  /\ matchRes = NoResult
  /\ ApplyIdle
  /\ SaveIdle

find_best_config_call(monitor) ==
  /\ matchArg' = monitor
  /\ matchRes' = find_best_config(monitor)
  /\ UNCHANGED <<disk, connected, udevQueue, profiles, profileOrder,
                 active_profile_name, current_monitors, pc, monitors,
                 new_monitor_set, idx, inflight, log, cycleInfo, lastDone,
                 nEvents, faults, udevAction, backlog, applyVars, saveVars>>

MatchNext == \E monitor \in MatchMonitors : find_best_config_call(monitor)

MatchSpec == MatchInit /\ [][MatchNext]_vars

\* ------------------------------------------------ building the command
\* apply_monitor_config and the front-end's apply_config called with one
\* output and one configuration; the configuration is any stored entry, with
\* or without each field, well-formed or not.
Opt(k, values) == {<< >>} \cup {k :> v : v \in values}

ApplyConfigs ==
  {("model" :> "DELL") @@ p @@ r @@ sc @@ tr @@ en :
     p \in Opt("position", {<<"0", ",", "0">>, <<"1", "9", "2", "0">>}),
     r \in Opt("resolution", {<<"1", "9", "2", "0", "x", "1", "0", "8", "0">>,
                              <<"1", "9", "2", "0">>}),
     sc \in Opt("scale", {PyFloat(10), PyFloat(15), PyInt(2)}),
     tr \in Opt("transform", {"normal", "90"}),
     en \in Opt("enabled", {TRUE, FALSE})}

ConfigFields == {"model", "position", "resolution", "scale", "transform", "enabled"}

ApplyInit ==
  /\ DaemonInit
  /\ disk = DiskGood
  /\ connected = {}
  /\ matchArg = NoMonitor
  /\ matchRes = NoResult
  /\ SaveIdle
  /\ applyArg \in [monitor : Monitors, config : ApplyConfigs]
  /\ applyRes = NoResult

\* MonitorDaemon.apply_monitor_config(monitor, config) up to subprocess.run
apply_monitor_config_call ==
  /\ applyRes' = [by |-> "daemon",
                  cmd |-> BuildCommand(applyArg.monitor, applyArg.config)]
  /\ UNCHANGED <<disk, connected, udevQueue, profiles, profileOrder,
                 active_profile_name, current_monitors, pc, monitors,
                 new_monitor_set, idx, inflight, log, cycleInfo, lastDone,
                 nEvents, faults, udevAction, matchArg, matchRes, backlog,
                 applyArg, saveVars>>

\* MonitorConfigRow.apply_config() up to subprocess.run, for a row whose
\* widgets hold the configuration
manager_apply_config ==
  /\ DOMAIN applyArg.config = ConfigFields
  /\ applyArg.config.scale.type = "float"
  /\ applyRes' = [by |-> "manager",
                  cmd |-> ManagerBuildCommand(applyArg.monitor.name, applyArg.config)]
  /\ UNCHANGED <<disk, connected, udevQueue, profiles, profileOrder,
                 active_profile_name, current_monitors, pc, monitors,
                 new_monitor_set, idx, inflight, log, cycleInfo, lastDone,
                 nEvents, faults, udevAction, matchArg, matchRes, backlog,
                 applyArg, saveVars>>

ApplyNext == apply_monitor_config_call \/ manager_apply_config

ApplySpec == ApplyInit /\ [][ApplyNext]_vars

\* ---------------------------------------------------- save_current_setup
\* A daemon that has loaded its profiles and is idle; save_current_setup is
\* called once, while other processes (the front-end, another daemon) read
\* the profile files and the front-end saves a profile of its own.

\* entries of get_outputs with the attributes save_current_setup reads; scale,
\* transform and disabled are optional
oDell ==
  [name |-> "DP-1", model |-> "DELL", serial |-> "ABC123",
   rect |-> [x |-> 0, y |-> 0], current_mode |-> [width |-> 1920, height |-> 1080],
   scale |-> PyFloat(10), transform |-> "normal", disabled |-> FALSE]
oLG ==
  [name |-> "HDMI-1", model |-> "LG", serial |-> "XYZ",
   rect |-> [x |-> 1920, y |-> 0], current_mode |-> [width |-> 2560, height |-> 1440],
   scale |-> PyFloat(15), transform |-> "90"]
\* a second monitor of the same model reporting the same serial
oLGtwin ==
  [name |-> "DP-2", model |-> "LG", serial |-> "XYZ",
   rect |-> [x |-> 0 - 2560, y |-> 0],
   current_mode |-> [width |-> 2560, height |-> 1440],
   scale |-> PyInt(2), disabled |-> TRUE]
\* a monitor that reports no serial
oNoSerial ==
  [name |-> "HDMI-2", model |-> "DELL", serial |-> "",
   rect |-> [x |-> 0, y |-> 1080], current_mode |-> [width |-> 1280, height |-> 720]]
\* an output that reports no model
oNoModel ==
  [name |-> "eDP-1", model |-> "", serial |-> "",
   rect |-> [x |-> 0, y |-> 0], current_mode |-> [width |-> 1920, height |-> 1080]]

SaveOutputs == {oDell, oLG, oLGtwin, oNoSerial, oNoModel}

SaveTopologies == {ms \in SUBSET SaveOutputs : Cardinality(ms) <= MaxOutputs}

\* the directory before the save
SaveDisk ==
  [files |-> ("default" :> FileOk(("DELL" :> cfgAlt)))
             @@ ("office" :> FileOk(("LG_XYZ" :> cfgLG))),
   marker |-> NoMarker]

\* profile_name arguments of the call; "" stands for None
SaveNames == {"", "home", "office"}

SaveInit ==
  /\ disk \in {SaveDisk, [SaveDisk EXCEPT !.marker = Marker("office", FALSE)]}
  /\ profiles = [n \in DOMAIN disk.files |-> LoadedConfigs(disk.files[n])]
  /\ profileOrder \in Orderings(DOMAIN disk.files)
  /\ active_profile_name =
       IF disk.marker.exists THEN Strip(disk.marker) ELSE DEFAULT_PROFILE
  /\ connected \in SaveTopologies
  /\ current_monitors = {}
  /\ pc = [t \in Threads |-> Idle(t)]
  /\ monitors = [t \in Threads |-> << >>]
  /\ new_monitor_set = [t \in Threads |-> {}]
  /\ idx = [t \in Threads |-> 0]
  /\ inflight = [t \in Threads |-> NoCmd]
  /\ log = [t \in Threads |-> << >>]
  /\ cycleInfo = [t \in Threads |-> [prev |-> NoCycle, solo |-> FALSE]]
  /\ lastDone = NoCycle
  /\ udevQueue = << >>
  /\ nEvents = 0
  /\ faults = << >>
  /\ udevAction = ""
  /\ backlog = 0
  /\ matchArg = NoMonitor
  /\ matchRes = NoResult
  /\ ApplyIdle
  /\ SaveIdle

\* d[k] = v on a dict
Put(d, k, v) == [x \in DOMAIN d \cup {k} |-> IF x = k THEN v ELSE d[x]]

\* the config dict of lines 169-176
CaptureConfig(monitor) ==
  [model |-> monitor.model,
   position |-> FormatInt(monitor.rect.x) \o <<",">> \o FormatInt(monitor.rect.y),
   resolution |-> FormatInt(monitor.current_mode.width) \o <<"x">>
                    \o FormatInt(monitor.current_mode.height),
   scale |-> Get(monitor, "scale", PyFloat(10)),
   transform |-> Get(monitor, "transform", "normal"),
   enabled |-> ~Get(monitor, "disabled", FALSE)]

\* the for loop of save_current_setup over the queried monitors ms
RECURSIVE SnapshotInto(_, _)
SnapshotInto(configs, ms) ==
  IF ms = << >> THEN configs
  ELSE LET m == Head(ms)
           byModel == Put(configs, m.model, CaptureConfig(m))
           bySerial == IF m.serial # ""
                       THEN Put(byModel, m.model \o "_" \o m.serial, CaptureConfig(m))
                       ELSE byModel
       IN IF m.model = "" THEN SnapshotInto(configs, Tail(ms))
          ELSE SnapshotInto(bySerial, Tail(ms))

\* lines 159-181 once the query has returned ms
Snapshot(name, ms) ==
  /\ saveMonitors' = ms
  /\ profiles' = Put(profiles, name, SnapshotInto(Get(profiles, name, << >>), ms))
  /\ profileOrder' = IF name \in DOMAIN profiles THEN profileOrder
                     ELSE Append(profileOrder, name)
  /\ savePc' = "open_profile"

\* save_current_setup(profile_name) up to profile.save()
save_current_setup(profile_name) ==
  /\ savePc = "idle"
  /\ saveArg' = profile_name
  /\ active_profile_name' =
       IF profile_name # "" THEN profile_name ELSE active_profile_name
  /\ \/ \E ms \in Orderings(connected) :
          /\ Snapshot(active_profile_name', ms)
          /\ UNCHANGED faults
     \/ \* swaymsg exits non-zero: get_current_monitors returns []
        /\ Len(faults) < MaxFaults
        /\ faults' = Append(faults, "query_exit")
        /\ Snapshot(active_profile_name', << >>)
     \/ \* malformed output: JSONDecodeError leaves save_current_setup
        /\ Len(faults) < MaxFaults
        /\ faults' = Append(faults, "query_malformed")
        /\ savePc' = "raised"
        /\ UNCHANGED <<profiles, profileOrder, saveMonitors>>
  /\ UNCHANGED <<disk, connected, udevQueue, current_monitors, pc, monitors,
                 new_monitor_set, idx, inflight, log, cycleInfo, lastDone,
                 nEvents, udevAction, matchArg, matchRes, backlog, applyVars,
                 readerSaw, manager_save>>

\* MonitorProfile.save: open(self.file_path, 'w') creates or truncates the file
profile_save_open ==
  /\ savePc = "open_profile"
  /\ disk' = [disk EXCEPT !.files = Put(@, active_profile_name, FileEmpty)]
  /\ savePc' = "dump_profile"
  /\ UNCHANGED <<connected, udevQueue, profiles, profileOrder,
                 active_profile_name, current_monitors, pc, monitors,
                 new_monitor_set, idx, inflight, log, cycleInfo, lastDone,
                 nEvents, faults, udevAction, matchArg, matchRes, backlog,
                 applyVars, saveArg, saveMonitors, readerSaw, manager_save>>

\* MonitorProfile.save: json.dump writes the text; the buffer reaches the file
\* in one piece at close, or a first part of it earlier when the text is
\* longer than the buffer
profile_save_dump ==
  /\ savePc = "dump_profile"
  /\ \/ /\ disk.files[active_profile_name] = FileEmpty
        /\ disk' = [disk EXCEPT !.files[active_profile_name] = FilePartial]
        /\ UNCHANGED savePc
     \/ /\ disk' = [disk EXCEPT !.files[active_profile_name] =
                                    FileOk(profiles[active_profile_name])]
        /\ savePc' = "open_marker"
  /\ UNCHANGED <<connected, udevQueue, profiles, profileOrder,
                 active_profile_name, current_monitors, pc, monitors,
                 new_monitor_set, idx, inflight, log, cycleInfo, lastDone,
                 nEvents, faults, udevAction, matchArg, matchRes, backlog,
                 applyVars, saveArg, saveMonitors, readerSaw, manager_save>>

\* save_active_profile: open(ACTIVE_PROFILE, 'w') creates or truncates the marker
save_active_profile_open ==
  /\ savePc = "open_marker"
  /\ disk' = [disk EXCEPT !.marker = Marker("", FALSE)]
  /\ savePc' = "write_marker"
  /\ UNCHANGED <<connected, udevQueue, profiles, profileOrder,
                 active_profile_name, current_monitors, pc, monitors,
                 new_monitor_set, idx, inflight, log, cycleInfo, lastDone,
                 nEvents, faults, udevAction, matchArg, matchRes, backlog,
                 applyVars, saveArg, saveMonitors, readerSaw, manager_save>>

\* save_active_profile: f.write(self.active_profile_name), and the return of
\* save_current_setup
save_active_profile_write ==
  /\ savePc = "write_marker"
  /\ disk' = [disk EXCEPT !.marker = Marker(active_profile_name, FALSE)]
  /\ savePc' = "done"
  /\ UNCHANGED <<connected, udevQueue, profiles, profileOrder,
                 active_profile_name, current_monitors, pc, monitors,
                 new_monitor_set, idx, inflight, log, cycleInfo, lastDone,
                 nEvents, faults, udevAction, matchArg, matchRes, backlog,
                 applyVars, saveArg, saveMonitors, readerSaw, manager_save>>

\* another process loads profile n: MonitorProfile.load, or the json.load of
\* the front-end's load_profiles
reader_load(n) ==
  /\ n \in DOMAIN disk.files
  /\ readerSaw' =
       [kind |-> "read", name |-> n, at |-> savePc,
        result |-> IF disk.files[n].ok
                   THEN [kind |-> "configs", configs |-> LoadedConfigs(disk.files[n])]
                   ELSE [kind |-> "JSONDecodeError"]]
  /\ UNCHANGED <<disk, connected, udevQueue, profiles, profileOrder,
                 active_profile_name, current_monitors, pc, monitors,
                 new_monitor_set, idx, inflight, log, cycleInfo, lastDone,
                 nEvents, faults, udevAction, matchArg, matchRes, backlog,
                 applyVars, savePc, saveArg, saveMonitors, manager_save>>

\* the profile the front-end saves under a new name
ManagerProfileName == "work"
ManagerProfile == ("DELL" :> cfgDell)

\* SwayMonitorManager.save_profile(name, config): open(profile_path, 'w')
manager_save_profile_open ==
  /\ manager_save.pc = "idle"
  /\ manager_save' = [pc |-> "dump", name |-> ManagerProfileName,
                      config |-> ManagerProfile]
  /\ disk' = [disk EXCEPT !.files = Put(@, ManagerProfileName, FileEmpty)]
  /\ UNCHANGED <<connected, udevQueue, profiles, profileOrder,
                 active_profile_name, current_monitors, pc, monitors,
                 new_monitor_set, idx, inflight, log, cycleInfo, lastDone,
                 nEvents, faults, udevAction, matchArg, matchRes, backlog,
                 applyVars, savePc, saveArg, saveMonitors, readerSaw>>

\* SwayMonitorManager.save_profile: json.dump(config, f, indent=2) and close
manager_save_profile_dump ==
  /\ manager_save.pc = "dump"
  /\ disk' = [disk EXCEPT !.files[manager_save.name] = FileOk(manager_save.config)]
  /\ manager_save' = [pc |-> "done"]
  /\ UNCHANGED <<connected, udevQueue, profiles, profileOrder,
                 active_profile_name, current_monitors, pc, monitors,
                 new_monitor_set, idx, inflight, log, cycleInfo, lastDone,
                 nEvents, faults, udevAction, matchArg, matchRes, backlog,
                 applyVars, savePc, saveArg, saveMonitors, readerSaw>>

SaveNext ==
  \/ \E profile_name \in SaveNames : save_current_setup(profile_name)
  \/ profile_save_open
  \/ profile_save_dump
  \/ save_active_profile_open
  \/ save_active_profile_write
  \/ \E n \in DOMAIN disk.files : reader_load(n)
  \/ manager_save_profile_open
  \/ manager_save_profile_dump

SaveSpec == SaveInit /\ [][SaveNext]_vars

\* ------------------------------------------------------------------ claims
Last(s) == s[Len(s)]

\* the outputs the query of thread t's reconciliation returned
Queried(t) == IF log[t] # << >> /\ log[t][1].op = "query"
              THEN Range(log[t][1].monitors) ELSE {}

\* the applyConfig invocations thread t's reconciliation made for output name
Applies(t, name) ==
  {i \in 1..Len(log[t]) : log[t][i].op = "apply" /\ log[t][i].name = name}

\* C1: at most one reconciliation is in progress at any time: the startup
\* reconciliation of run() and one triggered by handle_udev_event never
\* overlap, so no two applyConfig calls for the same output are in flight
\* together.
C1_OneReconciliationAtATime ==
  /\ ~(InCycle("main") /\ InCycle("observer"))
  /\ ~(/\ inflight["main"].verb # "none"
       /\ inflight["observer"].verb # "none"
       /\ inflight["main"].output = inflight["observer"].output)

\* thread t's reconciliation followed a completed reconciliation directly (no
\* other reconciliation ran in between or alongside) and its query returned
\* the name-set the earlier one's query returned
RepeatedQuery(t) ==
  /\ cycleInfo[t].solo
  /\ cycleInfo[t].prev.done
  /\ log[t] # << >>
  /\ log[t][1].op = "query"
  /\ Names(Range(log[t][1].monitors)) = cycleInfo[t].prev.names

\* C2: idempotence: when two reconciliations run one after the other and the
\* query returns the same set of output names both times, the second one
\* makes no applyConfig call and leaves LiveOutputSet as it was.
C2_Idempotent ==
  \A t \in Threads :
    RepeatedQuery(t) =>
      /\ pc[t] \notin {"loop", "applying", "update"}
      /\ \A i \in 1..Len(log[t]) : log[t][i].op \notin {"apply", "update"}
      /\ inflight[t] = NoCmd
      /\ current_monitors = cycleInfo[t].prev.names

\* C2 witness: a second reconciliation over the same non-empty name-set has
\* run to its end
C2_Witness ==
  \E t \in Threads :
    /\ RepeatedQuery(t)
    /\ cycleInfo[t].prev.names # {}
    /\ Last(log[t]).op = "unchanged"
    /\ pc[t] = Idle(t)

\* every output of thread t's query has been through the loop: its
\* applyConfig call has returned, or the matcher found nothing for it
AllAttempted(t) ==
  \A m \in Queried(t) :
    \E i \in 1..Len(log[t]) :
      /\ log[t][i].op \in {"apply", "nomatch"}
      /\ log[t][i].name = m.name
      /\ log[t][i].op = "apply" => log[t][i].result \in {"ok", "fail"}

\* C3: within a reconciliation the output query comes before every
\* applyConfig call, and LiveOutputSet is written only after applyConfig has
\* been attempted for every matched output of that reconciliation.
C3_QueryApplyUpdateOrder ==
  [][ /\ \A t \in Threads :
           \A i \in 1..Len(log'[t]) :
             log'[t][i].op = "apply" => (i > 1 /\ log'[t][1].op = "query")
      /\ \A t \in Threads :
           (inflight'[t] # inflight[t] /\ inflight'[t] # NoCmd) =>
             (log[t] # << >> /\ log[t][1].op = "query")
      /\ current_monitors' # current_monitors =>
           \E t \in Threads :
             /\ pc[t] = "update"
             /\ current_monitors' = Names(Queried(t))
             /\ AllAttempted(t)
    ]_vars

\* C3 witness: a reconciliation over two outputs has applied a configuration
\* and then stored the new name-set
C3_Witness ==
  \E t \in Threads :
    /\ log[t] # << >>
    /\ Last(log[t]).op = "update"
    /\ Cardinality(Queried(t)) = 2
    /\ \E i \in 1..Len(log[t]) : log[t][i].op = "apply" /\ log[t][i].result = "ok"
    /\ current_monitors = Names(Queried(t))

\* the cycle of thread t was cut short by an exception (its own, or the one
\* that ended the process)
Aborted(t) == pc[t] \in {"dead", "crashed", "killed"}

\* C4: partial failure: when applyConfig fails for one output of a
\* reconciliation, applyConfig is still invoked for every other connected
\* output with a matching configuration and the cycle completes without
\* aborting.
C4_PartialFailure ==
  \A t \in Threads :
    (\E i \in 1..Len(log[t]) :
       log[t][i].op = "apply" /\ log[t][i].result \in {"fail", "raise"})
    => /\ ~Aborted(t)
       /\ ~InCycle(t) =>
            /\ Last(log[t]).op = "update"
            /\ \A m \in Queried(t) :
                 (find_best_config(m).kind = "config" /\ Truthy(find_best_config(m).config))
                   => Applies(t, m.name) # {}

\* C5: the daemon keeps running across any single external failure: after a
\* failed or unparseable query, a failed apply or a corrupt profile file the
\* event-handling path has not stopped.
C5_KeepsRunning ==
  (faults # << >> \/ \E n \in DOMAIN disk.files : ~disk.files[n].ok)
    => /\ pc["main"] # "crashed"
       /\ pc["observer"] \notin {"dead", "killed"}

\* C6: matching precedence: if the active profile has an entry under one of
\* the output's identifiers "{model}_{serial}", model, name, find_best_config
\* returns the active profile's entry under the first of them that is a key,
\* never an entry of another profile.
C6_ActivePrecedence ==
  matchRes # NoResult =>
    LET a == profiles[active_profile_name]
        ms == matchArg.model \o "_" \o matchArg.serial
    IN /\ ms \in DOMAIN a => matchRes = [kind |-> "config", config |-> a[ms]]
       /\ (ms \notin DOMAIN a /\ matchArg.model \in DOMAIN a)
            => matchRes = [kind |-> "config", config |-> a[matchArg.model]]
       /\ (ms \notin DOMAIN a /\ matchArg.model \notin DOMAIN a
             /\ matchArg.name \in DOMAIN a)
            => matchRes = [kind |-> "config", config |-> a[matchArg.name]]
       /\ ({ms, matchArg.model, matchArg.name} \cap DOMAIN a # {})
            => \A p \in DOMAIN profiles \ {active_profile_name} :
                 \A k \in DOMAIN profiles[p] : matchRes.config # profiles[p][k]

\* C6 witness: the active profile holds the model_serial key and the name
\* key, a profile iterated before it holds the bare model, and the match is
\* the active profile's model_serial entry
C6_Witness ==
  /\ matchArg = mDell
  /\ active_profile_name = "office"
  /\ DOMAIN profiles["office"] = {"DELL_ABC123", "DP-1"}
  /\ "DELL" \in DOMAIN profiles["default"]
  /\ profileOrder[1] = "default"
  /\ matchRes = [kind |-> "config", config |-> EntryOf("office", "DELL_ABC123")]

\* some identifier of output m is a key of profile p
HasEntryFor(p, m) ==
  {m.model \o "_" \o m.serial, m.model, m.name} \cap DOMAIN profiles[p] # {}

\* the entry of profile p for output m, identifiers tried in order
EntryFor(p, m) ==
  LET c == profiles[p]
      ms == m.model \o "_" \o m.serial
  IN IF ms \in DOMAIN c THEN c[ms]
     ELSE IF m.model \in DOMAIN c THEN c[m.model] ELSE c[m.name]

\* C7: fallback precedence: when no identifier of the output is a key of the
\* active profile but one is a key of another profile, find_best_config
\* returns the entry of the first profile in iteration order that has one
\* (identifiers in the same order), and it returns "no configuration" only
\* when no profile has any of the three identifiers.
C7_FallbackPrecedence ==
  matchRes # NoResult =>
    /\ ~HasEntryFor(active_profile_name, matchArg) =>
         \A i \in 1..Len(profileOrder) :
           (/\ HasEntryFor(profileOrder[i], matchArg)
            /\ \A j \in 1..(i - 1) : ~HasEntryFor(profileOrder[j], matchArg))
           => /\ profileOrder[i] # active_profile_name
              /\ matchRes = [kind |-> "config",
                             config |-> EntryFor(profileOrder[i], matchArg)]
    /\ matchRes.kind = "None" <=>
         \A p \in DOMAIN profiles : ~HasEntryFor(p, matchArg)

\* C7 witness: the active profile has nothing for the output, two other
\* profiles do, and the match is the entry of the one iterated first
C7_Witness ==
  /\ matchArg = mLGonDP
  /\ active_profile_name = "default"
  /\ profileOrder = <<"home", "default", "office">>
  /\ ~HasEntryFor("default", mLGonDP)
  /\ HasEntryFor("home", mLGonDP)
  /\ HasEntryFor("office", mLGonDP)
  /\ matchRes = [kind |-> "config", config |-> EntryOf("home", "DP-1")]

\* C8: in a reconciliation that detects a changed name-set, applyConfig is
\* invoked exactly once, with the matched configuration, for each connected
\* output for which the matcher finds a configuration, and not at all for an
\* output that matches nothing in any profile.
C8_ApplyOncePerMatch ==
  \A t \in Threads :
    (log[t] # << >> /\ Last(log[t]).op = "update") =>
      \A m \in Queried(t) :
        IF find_best_config(m).kind = "config"
        THEN /\ Cardinality(Applies(t, m.name)) = 1
             /\ \A i \in Applies(t, m.name) :
                  log[t][i].config = find_best_config(m).config
        ELSE Applies(t, m.name) = {}

\* every reconciliation so far got an answer from the compositor
QueriesSucceeded == \A i \in 1..Len(faults) : faults[i] = "apply_exit"

\* no event is waiting and no thread is reconciling
Quiescent ==
  /\ pc["main"] = "sleep"
  /\ pc["observer"] = "wait"
  /\ udevQueue = << >>

\* C9: convergence: once hot-plug events have stopped and every triggered
\* reconciliation has completed with successful queries, LiveOutputSet is
\* the set of names of the outputs connected at that point.
C9_Converges ==
  (Quiescent /\ QueriesSucceeded) => current_monitors = Names(connected)

\* C10: every add or remove event is followed by a reconciliation whose query
\* comes after the settle delay for that event; events with another action
\* trigger none; on startup one reconciliation runs after the profiles are
\* loaded.
C10_EventsLeadToReconciliation ==
  /\ (\E i \in 1..Len(udevQueue) : udevQueue[i] \in {"add", "remove"})
       => /\ pc["main"] # "crashed"
          /\ pc["observer"] \notin {"dead", "killed"}
  /\ InCycle("observer") => udevAction \in {"add", "remove"}
  /\ InCycle("main") => DEFAULT_PROFILE \in DOMAIN profiles

\* C11: bursts of hot-plug events are coalesced: add/remove events that are
\* waiting together are one pending request, so an event that was already
\* queued when the handler took the event before it gets no settle delay and
\* query of its own.
C11_BurstCoalesced ==
  [][ (pc["observer"] = "wait" /\ pc'["observer"] = "settle") => backlog = 0 ]_vars

\* C12: listOutputs never raises to its caller: a query that exits non-zero
\* or prints malformed output returns the empty sequence.
C12_ListOutputsNeverRaises ==
  \A t \in Threads :
    \A i \in 1..Len(log[t]) :
      log[t][i].op = "raise" => log[t][i].exc # "JSONDecodeError"

\* C13: applyConfig never throws: for every configuration the matcher
\* returns, entries lacking position, resolution, scale or transform and
\* malformed position/resolution strings included, the call returns true or
\* false.
C13_ApplyNeverThrows ==
  \A t \in Threads :
    \A i \in 1..Len(log[t]) :
      log[t][i].op = "apply" => log[t][i].result \in {"pending", "ok", "fail"}

\* load_profiles has returned
LoadCompleted == pc["main"] = "start_observer" \/ pc["observer"] # "unstarted"

\* C14: loadAll skips a profile file that fails to parse: every well-formed
\* file of the directory is loaded into the mapping and the daemon goes on
\* to its startup reconciliation.
C14_CorruptFileSkipped ==
  (pc["main"] # "load_profiles" /\ (disk.marker.exists => disk.marker.readable))
    => /\ LoadCompleted
       /\ \A n \in DOMAIN disk.files :
            disk.files[n].ok =>
              /\ n \in DOMAIN profiles
              /\ profiles[n] = LoadedConfigs(disk.files[n])

\* C15: after loadAll completes the mapping contains a profile "default":
\* the one loaded from its file if the file exists, an empty one otherwise.
C15_DefaultAlwaysPresent ==
  LoadCompleted =>
    /\ DEFAULT_PROFILE \in DOMAIN profiles
    /\ profiles[DEFAULT_PROFILE] =
         IF DEFAULT_PROFILE \in DOMAIN disk.files
         THEN LoadedConfigs(disk.files[DEFAULT_PROFILE]) ELSE << >>

\* C15 witness: the directory holds no default.json, loading has completed
\* and the mapping holds an empty "default" next to the loaded profile
C15_Witness ==
  /\ LoadCompleted
  /\ DEFAULT_PROFILE \notin DOMAIN disk.files
  /\ DOMAIN profiles = DOMAIN disk.files \cup {DEFAULT_PROFILE}
  /\ profiles[DEFAULT_PROFILE] = << >>

\* C16: getActiveProfileName never fails: it gives "default" when the marker
\* is absent or unreadable and the name stored in the marker otherwise.
C16_ActiveNameNeverFails ==
  (pc["main"] # "load_profiles" /\ \A n \in DOMAIN disk.files : disk.files[n].ok)
    => /\ LoadCompleted
       /\ active_profile_name =
            IF disk.marker.exists /\ disk.marker.readable
            THEN disk.marker.name ELSE DEFAULT_PROFILE

\* configuration c carries position, resolution, scale and transform, the
\* two strings of the form "a,b" and "axb"
WellFormed(c) ==
  /\ {"position", "resolution", "scale", "transform"} \subseteq DOMAIN c
  /\ Len(Split(c.position, ",")) = 2
  /\ Len(Split(c.resolution, "x")) = 2

\* C20: with enabled=false applyConfig issues only the disable instruction
\* for the output, without position, resolution, scale or transform; with
\* enabled true or absent the instruction it issues carries all four, taken
\* from the configuration.
C20_DisabledOnlyDisable ==
  applyRes # NoResult =>
    LET c == applyArg.config
        cmd == applyRes.cmd
    IN IF Get(c, "enabled", TRUE)
       THEN /\ cmd.verb \in {"set", "raise"}
            /\ WellFormed(c) <=> cmd.verb = "set"
            /\ cmd.verb = "set" =>
                 cmd = [verb |-> "set", output |-> applyArg.monitor.name,
                        pos |-> Split(c.position, ","),
                        res |-> Split(c.resolution, "x"),
                        scale |-> Str(c.scale), transform |-> c.transform]
       ELSE cmd = [verb |-> "disable", output |-> applyArg.monitor.name]

\* C20 witness: a configuration with every field and enabled=false has been
\* applied and the command is the bare disable
C20_Witness ==
  /\ applyRes # NoResult
  /\ applyRes.by = "daemon"
  /\ DOMAIN applyArg.config = ConfigFields
  /\ WellFormed(applyArg.config)
  /\ ~applyArg.config.enabled
  /\ applyRes.cmd = [verb |-> "disable", output |-> applyArg.monitor.name]

\* C17: a profile save is atomic for concurrent readers: a reader that loads
\* a profile file at any point gets a complete content of it (the one before
\* the save or the one after), never an empty or partly written file.
C17_SaveAtomicForReaders ==
  readerSaw # NoRead => readerSaw.result.kind = "configs"

\* C18: save current setup stores, for every connected output with a
\* non-empty model, the captured configuration in the active profile under
\* the bare model and under "{model}_{serial}", stores nothing for an output
\* with an empty model, and then persists the profile file and the marker.
C18_SaveStoresBothKeys ==
  /\ savePc # "raised"
  /\ savePc = "done" =>
       LET stored == profiles[active_profile_name]
       IN /\ \A m \in connected :
               m.model # "" =>
                 /\ m.model \in DOMAIN stored
                 /\ stored[m.model] = CaptureConfig(m)
                 /\ (m.model \o "_" \o m.serial) \in DOMAIN stored
                 /\ stored[m.model \o "_" \o m.serial] = CaptureConfig(m)
          /\ \A m \in connected :
               m.model = "" =>
                 {"", "_" \o m.serial, m.name} \cap DOMAIN stored = {}
          /\ disk.files[active_profile_name] = FileOk(stored)
          /\ disk.marker = Marker(active_profile_name, FALSE)

\* the OutputConfig of a connected output at save time
OutputConfigOf(m) ==
  [model |-> m.model,
   position |-> <<m.rect.x, m.rect.y>>,
   resolution |-> <<m.current_mode.width, m.current_mode.height>>,
   scale |-> Get(m, "scale", PyFloat(10)),
   transform |-> Get(m, "transform", "normal"),
   enabled |-> ~Get(m, "disabled", FALSE)]

\* the OutputConfig a loaded entry stands for
Decode(entry) ==
  [model |-> entry.model,
   position |-> <<ParseInt(Split(entry.position, ",")[1]),
                  ParseInt(Split(entry.position, ",")[2])>>,
   resolution |-> <<ParseInt(Split(entry.resolution, "x")[1]),
                    ParseInt(Split(entry.resolution, "x")[2])>>,
   scale |-> entry.scale,
   transform |-> entry.transform,
   enabled |-> entry.enabled]

\* a reader has loaded the saved profile after save_current_setup returned
LoadedAfterSave ==
  /\ readerSaw # NoRead
  /\ readerSaw.at = "done"
  /\ readerSaw.name = active_profile_name
  /\ readerSaw.result.kind = "configs"

\* C19: round trip: after saving the current setup and loading the saved
\* profile, the entry found for each captured output ("{model}_{serial}",
\* else the bare model) is field for field the OutputConfig captured from it.
C19_RoundTrip ==
  LoadedAfterSave =>
    LET loaded == readerSaw.result.configs
    IN \A i \in 1..Len(saveMonitors) :
         LET m == saveMonitors[i]
             ms == m.model \o "_" \o m.serial
         IN m.model # "" =>
              /\ m.model \in DOMAIN loaded
              /\ Decode(IF ms \in DOMAIN loaded THEN loaded[ms] ELSE loaded[m.model])
                   = OutputConfigOf(m)

\* the query of thread t's reconciliation ended with a non-zero exit
FailedQuery(t) ==
  /\ log[t] # << >>
  /\ log[t][1].op = "query"
  /\ ~log[t][1].ok

\* thread t's reconciliation followed directly (no other reconciliation in
\* between or alongside) a reconciliation whose query had failed, and its own
\* query succeeded and reported outputs
AfterFailedQuery(t) ==
  /\ cycleInfo[t].solo
  /\ cycleInfo[t].prev.done
  /\ cycleInfo[t].prev.failed
  /\ log[t] # << >>
  /\ log[t][1].op = "query"
  /\ log[t][1].ok
  /\ log[t][1].monitors # << >>

\* the matcher finds a configuration for output m that the loop applies
Matched(m) ==
  LET found == find_best_config(m)
  IN found.kind = "config" /\ Truthy(found.config)

\* C21: a reconciliation whose query fails with a non-zero exit sees an empty
\* output list: it makes no applyConfig call, and it sets LiveOutputSet to the
\* empty set when it was non-empty. The next reconciliation with a successful
\* query therefore takes the changed branch and applies configurations to the
\* matched outputs again, although the topology is the one LiveOutputSet
\* described before the failure.
C21_FailedQueryEmptiesLiveSet ==
  \A t \in Threads :
    /\ FailedQuery(t) =>
         /\ log[t][1].monitors = << >>
         /\ \A i \in 1..Len(log[t]) : log[t][i].op \notin {"apply", "nomatch"}
         /\ inflight[t] = NoCmd
         /\ (cycleInfo[t].solo /\ pc[t] = Idle(t) /\ Len(log[t]) > 1) =>
              /\ current_monitors = {}
              /\ lastDone.names = {}
              /\ Last(log[t]).op = "update" <=> lastDone.was # {}
              /\ Last(log[t]).op = "unchanged" <=> lastDone.was = {}
    /\ AfterFailedQuery(t) =>
         /\ cycleInfo[t].prev.names = {}
         /\ \A i \in 1..Len(log[t]) : log[t][i].op # "unchanged"
         /\ pc[t] = Idle(t) =>
              /\ Last(log[t]).op = "update"
              /\ current_monitors = Names(Queried(t))
              /\ \A m \in Queried(t) : Matched(m) => Applies(t, m.name) # {}

\* C21 witness: LiveOutputSet described the connected outputs, a failed query
\* emptied it, and the next reconciliation applied a configuration for the
\* same outputs and stored their names again
C21_Witness ==
  \E t \in Threads :
    /\ AfterFailedQuery(t)
    /\ cycleInfo[t].prev.was = Names(Queried(t))
    /\ pc[t] = Idle(t)
    /\ Last(log[t]).op = "update"
    /\ \E i \in 1..Len(log[t]) : log[t][i].op = "apply" /\ log[t][i].result = "ok"
    /\ current_monitors = Names(Queried(t))

\* the three keys of output m, the first one spelled out for empty fields
BlankAwareKeys(m) ==
  << IF m.model = "" /\ m.serial = "" THEN "_"
     ELSE IF m.serial = "" THEN m.model \o "_"
     ELSE IF m.model = "" THEN "_" \o m.serial
     ELSE m.model \o "_" \o m.serial,
     m.model, m.name >>

\* the entry of mapping c under the first of keys that is a key of c
FirstEntry(c, keys) ==
  IF keys[1] \in DOMAIN c THEN c[keys[1]]
  ELSE IF keys[2] \in DOMAIN c THEN c[keys[2]] ELSE c[keys[3]]

\* C22: the matcher does not special-case empty strings: for an output whose
\* model and/or serial is empty it tries "{model}_{serial}" ("_" when both are
\* empty), then the (possibly empty) model string, then the name, and an
\* entry stored under such a key is returned like an entry under any other
\* key.
C22_EmptyStringsAreKeys ==
  (matchRes # NoResult /\ (matchArg.model = "" \/ matchArg.serial = "")) =>
    LET keys == BlankAwareKeys(matchArg)
        Has(p) == {keys[1], keys[2], keys[3]} \cap DOMAIN profiles[p] # {}
        a == active_profile_name
    IN /\ Has(a) =>
            matchRes = [kind |-> "config", config |-> FirstEntry(profiles[a], keys)]
       /\ ~Has(a) =>
            \A i \in 1..Len(profileOrder) :
              (Has(profileOrder[i]) /\ \A j \in 1..(i - 1) : ~Has(profileOrder[j]))
                => matchRes = [kind |-> "config",
                               config |-> FirstEntry(profiles[profileOrder[i]], keys)]
       /\ matchRes.kind = "None" <=> \A p \in DOMAIN profiles : ~Has(p)

\* C22 witness: for the output with empty model and serial the active profile
\* holds the empty string and the name as keys, another profile holds "_",
\* and the match is the active profile's entry under the empty string
C22_Witness ==
  /\ matchArg = mBlank
  /\ active_profile_name = "office"
  /\ DOMAIN profiles["office"] = {"", "eDP-1"}
  /\ "_" \in DOMAIN profiles["default"]
  /\ profileOrder[1] = "default"
  /\ matchRes = [kind |-> "config", config |-> EntryOf("office", "")]

\* C23: a reconciliation (query, match, apply, LiveOutputSet update) leaves
\* the profile mapping, every profile's config mapping, the active profile
\* name and the profile and marker files as they are: of the daemon's state
\* it modifies LiveOutputSet only.
C23_ReconciliationFrame ==
  [][ (\E t \in Threads : InCycle(t)) =>
        UNCHANGED <<profiles, profileOrder, active_profile_name, disk>> ]_vars

\* C23 witness: a reconciliation has matched, applied and stored the name-set,
\* and the mapping, the active name and the files are those of the start
C23_Witness ==
  \E t \in Threads :
    /\ pc[t] = Idle(t)
    /\ log[t] # << >>
    /\ Last(log[t]).op = "update"
    /\ \E i \in 1..Len(log[t]) : log[t][i].op = "apply" /\ log[t][i].result = "ok"
    /\ current_monitors = {"HDMI-1"}
    /\ disk = DiskEdited
    /\ active_profile_name = "home"
    /\ DOMAIN profiles = {"home", DEFAULT_PROFILE}
    /\ profiles["home"] = LoadedConfigs(DiskEdited.files["home"])
    /\ profiles[DEFAULT_PROFILE] = << >>

\* C24: whenever the matcher runs, the active profile name is the name of a
\* profile in the loaded mapping, so the lookup of the active profile at the
\* head of find_best_config never fails.
C24_ActiveProfileLoaded ==
  /\ \A t \in Threads : pc[t] = "loop" => active_profile_name \in DOMAIN profiles
  /\ \A t \in Threads : \A i \in 1..Len(log[t]) :
       log[t][i].op = "raise" => log[t][i].exc # "KeyError"

\* C25: change detection compares output names only: a reconciliation enters
\* the apply loop if and only if the name-set of its query differs from
\* LiveOutputSet. When a different monitor (another model or serial) shows up
\* under a name already in LiveOutputSet and the name-set is otherwise equal,
\* no applyConfig call is made for it.
C25_NamesOnlyChangeDetection ==
  [][ \A t \in Threads :
        (pc[t] = "compare" /\ pc'[t] \notin {"compare", "killed"}) =>
          IF new_monitor_set[t] = current_monitors
          THEN /\ pc'[t] = Idle(t)
               /\ Last(log'[t]).op = "unchanged"
               /\ \A i \in 1..Len(log'[t]) : log'[t][i].op # "apply"
               /\ inflight'[t] = NoCmd
               /\ current_monitors' = current_monitors
          ELSE /\ pc'[t] \in {"loop", "update"}
               /\ pc'[t] = "loop" <=> monitors[t] # << >>
               /\ log'[t] = log[t]
    ]_vars

\* C25 witness: the reconciliation before saw the DELL monitor on DP-1; this
\* one's query reports the LG monitor on DP-1, the name-set is the same, and
\* it returned without an applyConfig call
C25_Witness ==
  \E t \in Threads :
    /\ cycleInfo[t].solo
    /\ cycleInfo[t].prev.done
    /\ cycleInfo[t].prev.seen = {mDell}
    /\ Queried(t) = {mLGonDP}
    /\ pc[t] = Idle(t)
    /\ Last(log[t]).op = "unchanged"
    /\ \A i \in 1..Len(log[t]) : log[t][i].op # "apply"
    /\ current_monitors = {"DP-1"}

====
